---- MODULE Spec2Model ----
(***************************************************************************)
(* Model of the SO-101 arm motion-control layer (src/server.py): the       *)
(* lock-protected robot session (_get_robot / _release_robot /             *)
(* _cleanup_robot), the mover (move / move_pose), the binary oscillations  *)
(* (talk / nod / thinking) and the composite gestures (presenting_talk /   *)
(* listening), run by concurrent request threads next to the process's     *)
(* main thread, which runs the atexit hook; and the tool dispatch loop of   *)
(* src/test_robot.py (run), which calls these operations one tool call     *)
(* after another.                                                          *)
(*                                                                         *)
(* Spec is the server with concurrent request threads, SpecSeq one client  *)
(* whose calls run in turn, SpecEase the mover alone over a range of step  *)
(* counts, and SpecRun the dispatch loop.                                  *)
(*                                                                         *)
(* Times are integers counting eighths of a second, so every duration,     *)
(* dwell and their products with small integers are dyadic rationals that  *)
(* binary floating point represents exactly.  Positions are rationals      *)
(* <<numerator, denominator>> in lowest terms.                             *)
(***************************************************************************)
EXTENDS Integers, Sequences, FiniteSets, TLC

\* ---------------------------------------------------------------- bounds
NThreads == 2
MaxOps == 1
MaxCleanups == 2
MaxSessions == 4
MaxCalls == 2

\* ------------------------------------------------------- program constants
TicksPerSecond == 8
CompositeFps == 30
GripperOpenTenths == 127
NodDelta == 15
RollHiTenths == 258
RollLoTenths == -304

Threads == 1..NThreads
Main == 0
NoOwner == -1
None == 0

\* ------------------------------------------------------------- rationals
RECURSIVE GCD(_, _)
GCD(a, b) == IF b = 0 THEN a ELSE GCD(b, a % b)

Abs(n) == IF n < 0 THEN -n ELSE n

Norm(n, d) ==
    LET g == GCD(Abs(n), Abs(d))
        s == IF d < 0 THEN -1 ELSE 1
    IN  <<(s * n) \div g, (s * d) \div g>>

Rat(n) == <<n, 1>>
RAdd(x, y) == Norm(x[1] * y[2] + y[1] * x[2], x[2] * y[2])
RSub(x, y) == Norm(x[1] * y[2] - y[1] * x[2], x[2] * y[2])
RMul(x, y) == Norm(x[1] * y[1], x[2] * y[2])
RLeq(x, y) == x[1] * y[2] <= y[1] * x[2]

Max(a, b) == IF a >= b THEN a ELSE b

\* int(x) of the non-negative quotient n / d: truncation
IntTrunc(n, d) == n \div d

\* round(x) of the non-negative quotient n / d: nearest, ties to even
RoundHalfEven(n, d) ==
    LET q == n \div d
        r == n % d
    IN  IF 2 * r < d THEN q
        ELSE IF 2 * r > d THEN q + 1
        ELSE IF q % 2 = 0 THEN q ELSE q + 1

\* -------------------------------------------------------------- channels
GRIPPER == <<"gripper", "pos">>
WRIST_FLEX == <<"wrist_flex", "pos">>
WRIST_ROLL == <<"wrist_roll", "pos">>
ELBOW_FLEX == <<"elbow_flex", "pos">>
FRONT_CAM == <<"front", "cam">>

EndsWithPos(k) == k[2] = "pos"

EmptyCfg == [k \in {} |-> Rat(0)]

\* what a device may report: every channel with its reading
FullArm == [k \in {GRIPPER, WRIST_FLEX, WRIST_ROLL, FRONT_CAM} |-> Rat(0)]
WristOnlyArm == [k \in {WRIST_FLEX, FRONT_CAM} |-> Rat(8)]
GripperOnlyArm == [k \in {GRIPPER, FRONT_CAM} |-> Rat(2)]

\* what saved_positions.json may hold
FullStore ==
    [n \in {"rest", "presenting", "stale", "blank"} |->
        CASE n = "rest" -> [k \in {WRIST_FLEX} |-> Rat(0)]
          [] n = "presenting" -> [k \in {WRIST_FLEX, ELBOW_FLEX} |-> Rat(16)]
          [] n = "stale" -> [k \in {ELBOW_FLEX} |-> Rat(4)]
          [] OTHER -> EmptyCfg]

GripperStore ==
    [n \in {"rest", "presenting"} |->
        IF n = "rest" THEN [k \in {WRIST_FLEX} |-> Rat(0)]
        ELSE [k \in {GRIPPER} |-> Rat(4)]]

BlankPresentingStore == [n \in {"presenting"} |-> EmptyCfg]

MissingFileStore == [n \in {} |-> EmptyCfg]

\* the installations: the pose file and the arm it is used with
Installations ==
    { [store |-> FullStore, arm |-> FullArm],
      [store |-> GripperStore, arm |-> WristOnlyArm],
      [store |-> BlankPresentingStore, arm |-> GripperOnlyArm],
      [store |-> MissingFileStore, arm |-> WristOnlyArm] }

\* the calls the clients make; times in ticks of 1/8 s
MovePoseCall(n, d, f) ==
    [op |-> "move_pose", name |-> n, duration |-> d, fps |-> f,
     seconds |-> 0, dwell |-> 0]
OscCall(k, s, w) ==
    [op |-> k, name |-> "none", duration |-> 0, fps |-> 0,
     seconds |-> s, dwell |-> w]
CompositeCall(o, s, d, w) ==
    [op |-> o, name |-> "presenting", duration |-> d, fps |-> CompositeFps,
     seconds |-> s, dwell |-> w]

SequentialCalls ==
    { MovePoseCall("rest", -8, 2), MovePoseCall("rest", 0, 2),
      MovePoseCall("rest", 1, 2), MovePoseCall("rest", 15, 2),
      MovePoseCall("stale", 15, 2),
      MovePoseCall("blank", 0, 2), MovePoseCall("nowhere", 15, 2),
      OscCall("talk", 40, 2), OscCall("talk", 0, 2),
      OscCall("nod", 3, 2), OscCall("nod", 3, 0),
      OscCall("thinking", 4, 2), OscCall("thinking", -3, 2),
      CompositeCall("presenting_talk", 3, 0, 2),
      CompositeCall("presenting_talk", 3, 1, 2),
      CompositeCall("listening", 3, 0, 2),
      CompositeCall("listening", 0, 1, 2) }

\* what the clients of the server ask for: gestures from the first, moves
\* and a nod from the others
ConcurrentCalls(t) ==
    IF t = 1
    THEN { MovePoseCall("rest", 15, 2), CompositeCall("presenting_talk", 3, 0, 2) }
    ELSE { MovePoseCall("rest", 0, 2), MovePoseCall("rest", 15, 2),
           OscCall("nod", 3, 2) }

VARIABLES
    persist,      \* _PERSIST
    envOk,        \* ROBOT_PORT and ROBOT_ID are both set
    poses,        \* contents of POSE_FILE
    obs,          \* the device's current observation
    ROBOT,        \* _ROBOT: None or a session id
    lock,         \* owner of _LOCK
    sessions,     \* every SO101Follower object constructed so far
    th,           \* per request thread: position and locals
    log,          \* every send_action call, in the order the device saw them
    acquired,     \* session ids _get_robot has returned
    menu,         \* per thread: the calls its client may make
    budget,       \* per thread: the number of calls it may still make
    cleanupPc,    \* position of the main thread inside _cleanup_robot
    cleanupCalls, \* number of _cleanup_robot calls begun
    cleanupDone,  \* number of _cleanup_robot calls returned
    finished,     \* the process has exited
    disp          \* run() of test_robot.py: the tool calls and their results

vars == <<persist, envOk, poses, obs, ROBOT, lock, sessions, th, log,
          acquired, menu, budget, cleanupPc, cleanupCalls, cleanupDone,
          finished, disp>>

IdleThread ==
    [pc |-> "idle", op |-> "none", opid |-> <<0, 0>>, prim |-> "none",
     name |-> "none", duration |-> 0, fps |-> 0, seconds |-> 0, dwell |-> 0,
     r |-> None, target0 |-> EmptyCfg, target |-> EmptyCfg,
     start |-> EmptyCfg, joint_keys |-> {}, steps |-> 0, i |-> 0,
     cycles |-> 0, poseA |-> EmptyCfg, poseB |-> EmptyCfg,
     ret |-> "none", exc |-> "none", moveRet |-> "none",
     acq |-> 0, rel |-> 0, relSid |-> None, opAcq |-> 0]

\* run() with its tool calls, the index of the one it is at, and the
\* results appended to messages so far
Dispatcher(calls) == [pc |-> "next", calls |-> calls, n |-> 1, out |-> <<>>]

\* run() is not in use
NoDispatch == [Dispatcher(<<>>) EXCEPT !.pc = "none"]

Start(inst, calls, calls_per_thread) ==
    /\ persist \in BOOLEAN
    /\ envOk \in BOOLEAN
    /\ poses = inst.store
    /\ obs = inst.arm
    /\ ROBOT = None
    /\ lock = NoOwner
    /\ sessions = <<>>
    /\ th = [t \in Threads |-> IdleThread]
    /\ log = <<>>
    /\ acquired = {}
    /\ menu = calls
    /\ budget = calls_per_thread
    /\ cleanupPc = "idle"
    /\ cleanupCalls = 0
    /\ cleanupDone = 0
    /\ finished = FALSE

\* the server: request threads that each run one call on the shared session
Init ==
    /\ Start([store |-> FullStore, arm |-> FullArm],
             [t \in Threads |-> ConcurrentCalls(t)], [t \in Threads |-> 1])
    /\ disp = NoDispatch

\* one client whose calls run one after another, as the driver of
\* test_robot.py issues them
InitSeq ==
    /\ \E inst \in Installations :
          Start(inst, [t \in Threads |-> SequentialCalls],
                [t \in Threads |-> IF t = 1 THEN MaxOps ELSE 0])
    /\ disp = NoDispatch

\* ------------------------------------------------------- pure functions
\* _cfg without the test of line 27: a config is built from whatever is set
CfgNeverRaises(env) == FALSE

\* _cfg: raises unless both ROBOT_PORT and ROBOT_ID are set
CfgRaises(env) == ~env

\* the class of the exception a primitive lets through: _cfg raises
\* RuntimeError (line 28); connect and the calls on a session that is not
\* connected raise the device library's connection errors
ErrorClass(kind) ==
    CASE kind = "config" -> "RuntimeError"
      [] kind = "connect" -> "ConnectionError"
      [] kind = "device" -> "DeviceNotConnectedError"
      [] OTHER -> "none"

\* issubclass(cls, ConnectionError)
IsConnectionError(cls) == cls \in {"ConnectionError", "DeviceNotConnectedError"}

\* poses.get(name, {})
PoseGet(store, name) == IF name \in DOMAIN store THEN store[name] ELSE EmptyCfg

\* a lookup that takes every pose, the empty one too, as found
NeverEmpty(c) == FALSE

\* `not pose`: an empty dict is falsy
IsEmptyCfg(c) == DOMAIN c = {}

\* _valid_keys: the keys of the observation that end with ".pos"
ValidKeysOf(o) == {k \in DOMAIN o : EndsWithPos(k)}

\* move without the filter of line 94: the target is sent as given
Unfiltered(target, keys) == target

\* {k: v for k, v in target.items() if k in keys}
FilterTarget(target, keys) == [k \in DOMAIN target \cap keys |-> target[k]]

\* the curve without its second branch
EaseInQuad(t) == RMul(Rat(2), RMul(t, t))

\* _ease_in_out_quad
Ease(t) ==
    IF 2 * t[1] < t[2]
    THEN RMul(Rat(2), RMul(t, t))
    ELSE LET u == RAdd(RMul(Rat(-2), t), Rat(2))
         IN  RSub(Rat(1), RMul(RMul(u, u), <<1, 2>>))

\* steps with round() in place of int()
StepsRounded(duration, fps) ==
    Max(1, RoundHalfEven(duration * fps, TicksPerSecond))

\* steps = max(1, int(duration * fps)), duration in ticks
Steps(duration, fps) == Max(1, IntTrunc(duration * fps, TicksPerSecond))

\* cycles = max(1, int(seconds / (2.0 * dwell)))
Cycles(seconds, dwell) == Max(1, IntTrunc(seconds, 2 * dwell))

\* frame = {k: start[k] + (target[k] - start[k]) * et for k in joint_keys}
Frame(start, target, jk, et) ==
    [k \in jk |-> RAdd(start[k], RMul(RSub(target[k], start[k]), et))]

\* the test written with < in place of <=
DegenerateStrict(seconds, dwell) == seconds < 0 \/ dwell < 0

\* seconds <= 0 or dwell <= 0
Degenerate(seconds, dwell) == seconds <= 0 \/ dwell <= 0

\* duration <= 0 => instant send
IsInstant(duration) == duration <= 0

\* ---------------------------------------------------------------- device
NewSession ==
    [connected |-> FALSE, established |-> FALSE, connects |-> 0,
     disconnects |-> 0, byCleanup |-> 0, raised |-> 0]

\* the session after r.connect(calibrate=False), which either succeeds or raises
Connected(s, ok) ==
    [s EXCEPT !.connected = ok, !.established = ok, !.connects = @ + 1]

\* the session after r.disconnect(): raises when the session is not
\* connected or when the bus write fails, and then the port stays as it was
Disconnected(s, ok, fromCleanup) ==
    [s EXCEPT !.connected = IF ok THEN FALSE ELSE @,
              !.disconnects = @ + 1,
              !.raised = IF ok /\ s.connected THEN @ ELSE @ + 1,
              !.byCleanup = IF fromCleanup THEN @ + 1 ELSE @]

Live(sid) == sid # None /\ sessions[sid].connected

\* the observation after the arm has taken a command
Applied(o, cmd) == [k \in DOMAIN o |-> IF k \in DOMAIN cmd THEN cmd[k] ELSE o[k]]

Entry(t, cmd) ==
    [t |-> t, op |-> th[t].opid, prim |-> th[t].prim, s |-> th[t].r,
     cmd |-> cmd, live |-> Live(th[t].r)]

\* ------------------------------------------------ _get_robot (acquire)
\* _get_robot without the `_ROBOT is None` test: a session per call
RobotAlwaysNone(robot) == TRUE

\* `_ROBOT is None`
RobotIsNone(robot) == robot = None

\* _get_robot raised: `r = _get_robot()` is outside the try, so the error
\* leaves the primitive with no release
AcquireRaised(me, kind) == [me EXCEPT !.pc = "return", !.exc = kind]

AcquireReturned(me, sid) ==
    [me EXCEPT !.pc = "valid_keys", !.r = sid, !.acq = @ + 1, !.opAcq = @ + 1]

\* not _PERSIST: a fresh session per call
GetRobotFresh(t, connOk) ==
    /\ ~finished
    /\ th[t].pc = "get_robot"
    /\ ~persist
    /\ IF CfgRaises(envOk)
       THEN /\ th' = [th EXCEPT ![t] = AcquireRaised(@, "config")]
            /\ UNCHANGED <<sessions, acquired>>
       ELSE /\ Len(sessions) < MaxSessions
            /\ sessions' = Append(sessions, Connected(NewSession, connOk))
            /\ IF connOk
               THEN /\ th' = [th EXCEPT ![t] = AcquireReturned(@, Len(sessions) + 1)]
                    /\ acquired' = acquired \cup {Len(sessions) + 1}
               ELSE /\ th' = [th EXCEPT ![t] = AcquireRaised(@, "connect")]
                    /\ UNCHANGED acquired
    /\ UNCHANGED <<disp, persist, envOk, poses, obs, ROBOT, lock, log, menu, budget,
                   cleanupPc, cleanupCalls, cleanupDone, finished>>

\* `with _LOCK:` entered by a request thread
LockIsFree(l) == l = NoOwner

GetRobotLock(t) ==
    /\ ~finished
    /\ th[t].pc = "get_robot"
    /\ persist
    /\ LockIsFree(lock)
    /\ lock' = t
    /\ th' = [th EXCEPT ![t].pc = "locked"]
    /\ UNCHANGED <<disp, persist, envOk, poses, obs, ROBOT, sessions, log, acquired,
                   menu, budget, cleanupPc, cleanupCalls, cleanupDone, finished>>

\* a lock that the caller keeps after _get_robot has returned
LockKept(t) == t

\* _LOCK after the `with _LOCK:` block of thread t is left
LockLeft(t) == NoOwner

\* the body of `with _LOCK:` in _get_robot, up to leaving the block
GetRobotLocked(t, connOk) ==
    /\ ~finished
    /\ th[t].pc = "locked"
    /\ lock = t
    /\ lock' = LockLeft(t)
    /\ IF RobotIsNone(ROBOT)
       THEN IF CfgRaises(envOk)
            THEN /\ th' = [th EXCEPT ![t] = AcquireRaised(@, "config")]
                 /\ UNCHANGED <<ROBOT, sessions, acquired>>
            ELSE /\ Len(sessions) < MaxSessions
                 /\ sessions' = Append(sessions, Connected(NewSession, connOk))
                 /\ ROBOT' = Len(sessions) + 1
                 /\ IF connOk
                    THEN /\ th' = [th EXCEPT ![t] = AcquireReturned(@, Len(sessions) + 1)]
                         /\ acquired' = acquired \cup {Len(sessions) + 1}
                    ELSE /\ th' = [th EXCEPT ![t] = AcquireRaised(@, "connect")]
                         /\ UNCHANGED acquired
       ELSE /\ th' = [th EXCEPT ![t] = AcquireReturned(@, ROBOT)]
            /\ acquired' = acquired \cup {ROBOT}
            /\ UNCHANGED <<ROBOT, sessions>>
    /\ UNCHANGED <<disp, persist, envOk, poses, obs, log, menu, budget,
                   cleanupPc, cleanupCalls, cleanupDone, finished>>

\* ------------------------------------------------------ calling a primitive
\* move(target, duration, fps) entered: line 91 is next
CallMove(me, target, duration, fps) ==
    [me EXCEPT !.pc = "get_robot", !.prim = "move", !.target0 = target,
               !.duration = duration, !.fps = fps, !.r = None,
               !.target = EmptyCfg, !.start = EmptyCfg, !.joint_keys = {},
               !.steps = 0, !.i = 0, !.ret = "none", !.exc = "none",
               !.acq = 0, !.rel = 0, !.relSid = None]

\* talk / nod / thinking entered: the degenerate case returns True at once
CallOsc(me, kind, seconds, dwell) ==
    [me EXCEPT !.pc = IF Degenerate(seconds, dwell) THEN "return" ELSE "get_robot",
               !.prim = kind, !.seconds = seconds, !.dwell = dwell, !.r = None,
               !.cycles = 0, !.i = 0, !.poseA = EmptyCfg, !.poseB = EmptyCfg,
               !.ret = IF Degenerate(seconds, dwell) THEN "true" ELSE "none",
               !.exc = "none", !.acq = 0, !.rel = 0, !.relSid = None]

\* a fresh call: opid names it, <<thread, calls the thread had left>>
Begin(t, op) == [IdleThread EXCEPT !.op = op, !.opid = <<t, budget[t]>>]

CanStart(t) ==
    /\ ~finished
    /\ th[t].pc \in {"idle", "done"}
    /\ budget[t] > 0

Started(t) == budget' = [budget EXCEPT ![t] = @ - 1]

\* move_pose(name, duration, fps)
StartMovePose(t, name, duration, fps) ==
    /\ CanStart(t)
    /\ Started(t)
    /\ LET pose == PoseGet(poses, name)
           me == [Begin(t, "move_pose") EXCEPT !.name = name]
       IN  th' = [th EXCEPT ![t] =
                    IF IsEmptyCfg(pose)
                    THEN [me EXCEPT !.pc = "done", !.ret = "false"]
                    ELSE CallMove(me, pose, duration, fps)]
    /\ UNCHANGED <<persist, envOk, poses, obs, ROBOT, lock, sessions, log,
                   acquired, menu, cleanupPc, cleanupCalls, cleanupDone, finished>>

\* talk(seconds, dwell), nod(seconds, dwell), thinking(seconds, dwell)
StartOsc(t, kind, seconds, dwell) ==
    /\ CanStart(t)
    /\ Started(t)
    /\ th' = [th EXCEPT ![t] = CallOsc(Begin(t, kind), kind, seconds, dwell)]
    /\ UNCHANGED <<persist, envOk, poses, obs, ROBOT, lock, sessions, log,
                   acquired, menu, cleanupPc, cleanupCalls, cleanupDone, finished>>

\* the oscillation a composite gesture ends with
OscOf(op) == IF op = "presenting_talk" THEN "talk" ELSE "nod"

\* presenting_talk(seconds, settle, dwell), listening(seconds, settle, dwell)
StartComposite(t, op, seconds, settle, dwell) ==
    /\ CanStart(t)
    /\ Started(t)
    /\ LET presenting == PoseGet(poses, "presenting")
           me == [Begin(t, op) EXCEPT !.name = "presenting", !.seconds = seconds,
                                   !.dwell = dwell]
       IN  th' = [th EXCEPT ![t] =
                    IF IsEmptyCfg(presenting)
                    THEN [me EXCEPT !.pc = "done", !.ret = "false"]
                    ELSE CallMove(me, presenting, settle, CompositeFps)]
    /\ UNCHANGED <<persist, envOk, poses, obs, ROBOT, lock, sessions, log,
                   acquired, menu, cleanupPc, cleanupCalls, cleanupDone, finished>>

\* ------------------------------------------------- inside the try blocks
\* a device call raised inside the try: the finally clause runs next
DeviceRaised(me) == [me EXCEPT !.pc = "release", !.exc = "device"]

\* a return that leaves the primitive without running a finally clause
ReturningUnreleased(me, value) == [me EXCEPT !.pc = "return", !.ret = value]

\* `return False` / `return True` inside the try: the finally clause runs next
Returning(me, value) == [me EXCEPT !.pc = "release", !.ret = value]

GripperOpen == [k \in {GRIPPER} |-> Norm(GripperOpenTenths, 10)]
GripperClosed == [k \in {GRIPPER} |-> Rat(0)]
RollHi == [k \in {WRIST_ROLL} |-> Norm(RollHiTenths, 10)]
RollLo == [k \in {WRIST_ROLL} |-> Norm(RollLoTenths, 10)]

\* the channel an oscillation drives
ChannelOf(prim) ==
    CASE prim = "talk" -> GRIPPER
      [] prim = "nod" -> WRIST_FLEX
      [] OTHER -> WRIST_ROLL

\* the loop of an oscillation is set up: cycles and the two poses
OscReady(me, first, second) ==
    [me EXCEPT !.pc = "send_osc", !.cycles = Cycles(me.seconds, me.dwell),
               !.poseA = first, !.poseB = second, !.i = 0]

\* move without the `if not target` test
AlwaysSomething(target) == FALSE

\* `if not target:` after the filter (line 95)
NothingToMove(target) == IsEmptyCfg(target)

\* an oscillation without its key check
ChannelNeverAbsent(prim, keys) == FALSE

\* `if "gripper.pos" not in keys:` and the like (lines 141, 161, 204)
ChannelAbsent(prim, keys) == ChannelOf(prim) \notin keys

\* move lines 93-99 and talk / nod / thinking up to the key check
AfterValidKeys(me, o) ==
    LET keys == ValidKeysOf(o)
        target == FilterTarget(me.target0, keys)
    IN  IF me.prim = "move"
        THEN IF NothingToMove(target) THEN Returning(me, "false")
             ELSE [me EXCEPT !.target = target,
                             !.pc = IF IsInstant(me.duration) THEN "send_instant"
                                    ELSE "read_start"]
        ELSE IF ChannelAbsent(me.prim, keys) THEN Returning(me, "false")
        ELSE IF me.prim = "talk" THEN OscReady(me, GripperOpen, GripperClosed)
        ELSE IF me.prim = "thinking" THEN OscReady(me, RollLo, RollHi)
        ELSE [me EXCEPT !.pc = "read_base"]

ValidKeys(t) ==
    /\ ~finished
    /\ th[t].pc = "valid_keys"
    /\ th' = [th EXCEPT ![t] = IF Live(@.r) THEN AfterValidKeys(@, obs)
                               ELSE DeviceRaised(@)]
    /\ UNCHANGED <<disp, persist, envOk, poses, obs, ROBOT, lock, sessions, log,
                   acquired, menu, budget, cleanupPc, cleanupCalls, cleanupDone,
                   finished>>

\* nod lines 164-167: base is read once, then up and down are fixed
AfterReadBase(me, o) ==
    LET base == IF WRIST_FLEX \in DOMAIN o THEN o[WRIST_FLEX] ELSE Rat(0)
        up == [k \in {WRIST_FLEX} |-> RAdd(base, Rat(NodDelta))]
        down == [k \in {WRIST_FLEX} |-> RSub(base, Rat(NodDelta))]
    IN  OscReady(me, down, up)

NodReadBase(t) ==
    /\ ~finished
    /\ th[t].pc = "read_base"
    /\ th' = [th EXCEPT ![t] = IF Live(@.r) THEN AfterReadBase(@, obs)
                               ELSE DeviceRaised(@)]
    /\ UNCHANGED <<disp, persist, envOk, poses, obs, ROBOT, lock, sessions, log,
                   acquired, menu, budget, cleanupPc, cleanupCalls, cleanupDone,
                   finished>>

\* move lines 105-113
AfterReadStart(me, o) ==
    LET start == [k \in ValidKeysOf(o) |-> o[k]]
        jk == DOMAIN start \cap DOMAIN me.target
    IN  IF jk = {} THEN Returning(me, "false")
        ELSE [me EXCEPT !.pc = "send_frame", !.start = start, !.joint_keys = jk,
                        !.steps = Steps(me.duration, me.fps), !.i = 0]

ReadStart(t) ==
    /\ ~finished
    /\ th[t].pc = "read_start"
    /\ th' = [th EXCEPT ![t] = IF Live(@.r) THEN AfterReadStart(@, obs)
                               ELSE DeviceRaised(@)]
    /\ UNCHANGED <<disp, persist, envOk, poses, obs, ROBOT, lock, sessions, log,
                   acquired, menu, budget, cleanupPc, cleanupCalls, cleanupDone,
                   finished>>

\* r.send_action(cmd): the call is logged; a connected session passes it on
\* to the arm, any other raises
SendAction(t, cmd) ==
    /\ log' = Append(log, Entry(t, cmd))
    /\ obs' = IF Live(th[t].r) THEN Applied(obs, cmd) ELSE obs

\* move lines 100-102
SendInstant(t) ==
    /\ ~finished
    /\ th[t].pc = "send_instant"
    /\ SendAction(t, th[t].target)
    /\ th' = [th EXCEPT ![t] = IF Live(@.r) THEN Returning(@, "true")
                               ELSE DeviceRaised(@)]
    /\ UNCHANGED <<disp, persist, envOk, poses, ROBOT, lock, sessions, acquired,
                   menu, budget, cleanupPc, cleanupCalls, cleanupDone, finished>>

\* a loop that runs from the last step down to the first
FrameAtReversed(me, i) ==
    Frame(me.start, me.target, me.joint_keys,
          Ease(Norm(me.steps - i + 1, me.steps)))

\* the frame of step i of a smooth move
FrameAt(me, i) ==
    Frame(me.start, me.target, me.joint_keys, Ease(Norm(i, me.steps)))

\* the loop of a move or an oscillation after its send number i
AfterSend(me, i, last) ==
    IF i = last THEN Returning([me EXCEPT !.i = i], "true")
    ELSE [me EXCEPT !.i = i]

\* move lines 114-121: one iteration, and the return after the last one
SendFrame(t) ==
    /\ ~finished
    /\ th[t].pc = "send_frame"
    /\ SendAction(t, FrameAt(th[t], th[t].i + 1))
    /\ th' = [th EXCEPT ![t] = IF Live(@.r) THEN AfterSend(@, @.i + 1, @.steps)
                               ELSE DeviceRaised(@)]
    /\ UNCHANGED <<disp, persist, envOk, poses, ROBOT, lock, sessions, acquired,
                   menu, budget, cleanupPc, cleanupCalls, cleanupDone, finished>>

\* a nod that takes the reading anew for every command
OscPoseResampled(me, i) ==
    IF me.prim = "nod"
    THEN [k \in {WRIST_FLEX} |->
             IF i % 2 = 1 THEN RSub(obs[WRIST_FLEX], Rat(NodDelta))
             ELSE RAdd(obs[WRIST_FLEX], Rat(NodDelta))]
    ELSE IF i % 2 = 1 THEN me.poseA ELSE me.poseB

\* an oscillation that starts with its second pose
OscPoseSwapped(me, i) == IF i % 2 = 1 THEN me.poseB ELSE me.poseA

\* the pose of send number i (from 1) of an oscillation
OscPose(me, i) == IF i % 2 = 1 THEN me.poseA ELSE me.poseB

\* talk lines 147-150 (nod 168-171, thinking 210-213): one send of a cycle
SendOsc(t) ==
    /\ ~finished
    /\ th[t].pc = "send_osc"
    /\ SendAction(t, OscPose(th[t], th[t].i + 1))
    /\ th' = [th EXCEPT ![t] = IF Live(@.r) THEN AfterSend(@, @.i + 1, 2 * @.cycles)
                               ELSE DeviceRaised(@)]
    /\ UNCHANGED <<disp, persist, envOk, poses, ROBOT, lock, sessions, acquired,
                   menu, budget, cleanupPc, cleanupCalls, cleanupDone, finished>>

\* --------------------------------------------- _release_robot (finally)
\* the finally clause has run _release_robot(r)
Released(me) ==
    [me EXCEPT !.pc = "return", !.rel = @ + 1, !.relSid = me.r]

\* the sessions after _release_robot(sid)
AfterRelease(ss, sid, keep, discOk) ==
    IF keep THEN ss
    ELSE [ss EXCEPT ![sid] = Disconnected(@, discOk, FALSE)]

Release(t, discOk) ==
    /\ ~finished
    /\ th[t].pc = "release"
    /\ sessions' = AfterRelease(sessions, th[t].r, persist, discOk)
    /\ th' = [th EXCEPT ![t] = Released(@)]
    /\ UNCHANGED <<disp, persist, envOk, poses, obs, ROBOT, lock, log, acquired,
                   menu, budget, cleanupPc, cleanupCalls, cleanupDone, finished>>

\* ----------------------------------------------- back in the caller
\* the operation is over: its result is me.ret, or me.exc was raised
Done(me) == [me EXCEPT !.pc = "done"]

\* a composite that goes on whatever move returned
MoveIgnored(me) == TRUE

\* `if not move(presenting, ...): return False` (lines 182, 193)
MoveSucceeded(me) == me.ret = "true"

\* what the caller of a primitive does with its result
AfterReturn(me) ==
    IF me.exc # "none" THEN Done(me)
    ELSE IF me.op \in {"presenting_talk", "listening"} /\ me.prim = "move"
    THEN IF MoveSucceeded(me)
         THEN CallOsc([me EXCEPT !.moveRet = me.ret], OscOf(me.op),
                      me.seconds, me.dwell)
         ELSE Done([me EXCEPT !.moveRet = me.ret])
    ELSE Done(me)

Return(t) ==
    /\ ~finished
    /\ th[t].pc = "return"
    /\ th' = [th EXCEPT ![t] = AfterReturn(@)]
    /\ UNCHANGED <<disp, persist, envOk, poses, obs, ROBOT, lock, sessions, log,
                   acquired, menu, budget, cleanupPc, cleanupCalls, cleanupDone,
                   finished>>

\* ------------------------------------------- _cleanup_robot (shutdown)
\* `with _LOCK:` entered by the main thread
CleanupLock ==
    /\ ~finished
    /\ cleanupPc = "idle"
    /\ cleanupCalls < MaxCleanups
    /\ LockIsFree(lock)
    /\ lock' = Main
    /\ cleanupPc' = "locked"
    /\ cleanupCalls' = cleanupCalls + 1
    /\ UNCHANGED <<disp, persist, envOk, poses, obs, ROBOT, sessions, th, log,
                   acquired, menu, budget, cleanupDone, finished>>

\* the sessions after the body of _cleanup_robot
AfterCleanup(ss, robot, discOk) ==
    IF robot # None THEN [ss EXCEPT ![robot] = Disconnected(@, discOk, TRUE)]
    ELSE ss

\* _cleanup_robot without `_ROBOT = None`: the reference is kept
KeptRobot(robot) == robot

\* _ROBOT after the body of _cleanup_robot
ClearedRobot(robot) == None

CleanupBody(discOk) ==
    /\ ~finished
    /\ cleanupPc = "locked"
    /\ lock = Main
    /\ sessions' = AfterCleanup(sessions, ROBOT, discOk)
    /\ ROBOT' = ClearedRobot(ROBOT)
    /\ lock' = NoOwner
    /\ cleanupPc' = "idle"
    /\ cleanupDone' = cleanupDone + 1
    /\ UNCHANGED <<disp, persist, envOk, poses, obs, th, log, acquired, menu, budget,
                   cleanupCalls, finished>>

\* the interpreter exits once the atexit hook has run
ProcessExit ==
    /\ ~finished
    /\ cleanupPc = "idle"
    /\ cleanupDone >= 1
    /\ finished' = TRUE
    /\ UNCHANGED <<disp, persist, envOk, poses, obs, ROBOT, lock, sessions, th, log,
                   acquired, menu, budget, cleanupPc, cleanupCalls, cleanupDone>>

\* ---------------------------------------------------------- specification
Next ==
    \/ \E t \in Threads : \E c \in menu[t] :
          /\ c.op = "move_pose"
          /\ StartMovePose(t, c.name, c.duration, c.fps)
          /\ UNCHANGED disp
    \/ \E t \in Threads : \E c \in menu[t] :
          /\ c.op \in {"talk", "nod", "thinking"}
          /\ StartOsc(t, c.op, c.seconds, c.dwell)
          /\ UNCHANGED disp
    \/ \E t \in Threads : \E c \in menu[t] :
          /\ c.op \in {"presenting_talk", "listening"}
          /\ StartComposite(t, c.op, c.seconds, c.duration, c.dwell)
          /\ UNCHANGED disp
    \/ \E t \in Threads, ok \in BOOLEAN : GetRobotFresh(t, ok)
    \/ \E t \in Threads : GetRobotLock(t)
    \/ \E t \in Threads, ok \in BOOLEAN : GetRobotLocked(t, ok)
    \/ \E t \in Threads : ValidKeys(t)
    \/ \E t \in Threads : NodReadBase(t)
    \/ \E t \in Threads : ReadStart(t)
    \/ \E t \in Threads : SendInstant(t)
    \/ \E t \in Threads : SendFrame(t)
    \/ \E t \in Threads : SendOsc(t)
    \/ \E t \in Threads, ok \in BOOLEAN : Release(t, ok)
    \/ \E t \in Threads : Return(t)
    \/ CleanupLock
    \/ \E ok \in BOOLEAN : CleanupBody(ok)
    \/ ProcessExit

Spec == Init /\ [][Next]_vars

SpecSeq == InitSeq /\ [][Next]_vars

\* the mover alone: one client that calls move_pose with durations and
\* rates that make 1, 2, 3, 4, 5 and 8 steps, on poses above, below and at
\* the arm's reading; no shutdown
EaseStore ==
    [n \in {"rest"} |->
        [k \in {WRIST_FLEX, GRIPPER, ELBOW_FLEX} |->
            IF k = WRIST_FLEX THEN Rat(16) ELSE Rat(-4)]]

LowStore == [n \in {"rest"} |-> [k \in {WRIST_FLEX} |-> Rat(-4)]]

EaseInstallations ==
    { [store |-> EaseStore, arm |-> FullArm],
      [store |-> LowStore, arm |-> WristOnlyArm],
      [store |-> FullStore, arm |-> FullArm] }

EaseCalls ==
    { MovePoseCall("rest", 8, 1), MovePoseCall("rest", 8, 2),
      MovePoseCall("rest", 15, 2), MovePoseCall("rest", 8, 4),
      MovePoseCall("rest", 8, 5), MovePoseCall("rest", 16, 4) }

InitEase ==
    /\ \E inst \in EaseInstallations :
          Start(inst, [t \in Threads |-> EaseCalls],
                [t \in Threads |-> IF t = 1 THEN MaxOps ELSE 0])
    /\ persist
    /\ envOk
    /\ disp = NoDispatch

NextEase ==
    \/ \E t \in Threads : \E c \in menu[t] :
          StartMovePose(t, c.name, c.duration, c.fps) /\ UNCHANGED disp
    \/ \E t \in Threads : GetRobotLock(t)
    \/ \E t \in Threads, ok \in BOOLEAN : GetRobotLocked(t, ok)
    \/ \E t \in Threads : ValidKeys(t)
    \/ \E t \in Threads : ReadStart(t)
    \/ \E t \in Threads : SendFrame(t)
    \/ \E t \in Threads, ok \in BOOLEAN : Release(t, ok)
    \/ \E t \in Threads : Return(t)

SpecEase == InitEase /\ [][NextEase]_vars

\* ------------------------------------------ run() of test_robot.py
\* FUNCTIONS: the tools, and the parameters their lambdas require and take
FUNCTIONS == {"move_to_pose", "presenting_talk", "listening", "thinking", "talking"}

Required(fn) == IF fn = "move_to_pose" THEN {"name"} ELSE {"seconds"}

Allowed(fn) ==
    CASE fn = "move_to_pose" -> {"name", "duration", "fps", "settle"}
      [] fn = "presenting_talk" -> {"seconds", "settle", "dwell"}
      [] fn = "listening" -> {"seconds", "settle", "dwell", "delta"}
      [] fn = "thinking" -> {"seconds", "dwell", "roll_hi", "roll_lo"}
      [] OTHER -> {"seconds", "dwell"}

\* the defaults of the lambdas, times in ticks; dwell of listening (0.3 s)
\* and of thinking (0.6 s) are no whole ticks, so calls of these carry dwell
Default(fn, k) ==
    CASE k = "duration" -> 12
      [] k = "fps" -> CompositeFps
      [] k = "settle" -> IF fn = "move_to_pose" THEN 0 ELSE TicksPerSecond
      [] k = "dwell" /\ fn \in {"talking", "presenting_talk"} -> 2

Arg(call, k) ==
    IF k \in DOMAIN call.args THEN call.args[k] ELSE Default(call.fn, k)

\* `if not runner` after FUNCTIONS.get(fn)
NoRunner(fn) == fn \notin FUNCTIONS

\* runner(**args) binds its keyword arguments, or raises TypeError
Binds(fn, args) ==
    /\ Required(fn) \subseteq DOMAIN args
    /\ DOMAIN args \subseteq Allowed(fn)

\* what the chat completion may ask for: a tool that does not exist, talking
\* without seconds, talking with a parameter it does not take, and three
\* calls that are in order
ToolCalls ==
    { [fn |-> "dance", args |-> [k \in {"seconds"} |-> 3]],
      [fn |-> "talking", args |-> [k \in {"dwell"} |-> 2]],
      [fn |-> "talking", args |-> [k \in {"seconds", "speed"} |-> 3]],
      [fn |-> "talking", args |-> [k \in {"seconds"} |-> 3]],
      [fn |-> "move_to_pose",
       args |-> [name |-> "rest", duration |-> 0]],
      [fn |-> "listening",
       args |-> [k \in {"seconds", "settle", "dwell"} |->
                    CASE k = "seconds" -> 3 [] k = "settle" -> 1 [] OTHER -> 2]] }

ToolCallLists == UNION {[1..n -> ToolCalls] : n \in 1..MaxCalls}

InitRun ==
    /\ Start([store |-> FullStore, arm |-> FullArm], [t \in Threads |-> {}],
             [t \in Threads |-> IF t = 1 THEN MaxCalls ELSE 0])
    /\ \E calls \in ToolCallLists : disp = Dispatcher(calls)

\* the loop of run() is at a tool call
AtCall ==
    /\ ~finished
    /\ disp.pc = "next"
    /\ disp.n <= Len(disp.calls)

Answered(d, result) ==
    [d EXCEPT !.pc = "next", !.n = @ + 1, !.out = Append(@, result)]

\* an exception leaves the loop and run(): nothing is appended
Raised(d) == [d EXCEPT !.pc = "raised"]

\* lines 161-162: out = {"ok": False, "error": "unknown tool ..."}
DispatchUnknown ==
    /\ AtCall
    /\ NoRunner(disp.calls[disp.n].fn)
    /\ disp' = Answered(disp, [ok |-> FALSE, error |-> "unknown tool"])
    /\ UNCHANGED <<persist, envOk, poses, obs, ROBOT, lock, sessions, th, log,
                   acquired, menu, budget, cleanupPc, cleanupCalls, cleanupDone,
                   finished>>

\* line 164 with arguments the lambda does not bind: TypeError
DispatchBadArgs ==
    /\ AtCall
    /\ ~NoRunner(disp.calls[disp.n].fn)
    /\ ~Binds(disp.calls[disp.n].fn, disp.calls[disp.n].args)
    /\ disp' = Raised(disp)
    /\ UNCHANGED <<persist, envOk, poses, obs, ROBOT, lock, sessions, th, log,
                   acquired, menu, budget, cleanupPc, cleanupCalls, cleanupDone,
                   finished>>

\* line 164: the lambda calls the operation of the tool
DispatchCall ==
    /\ AtCall
    /\ ~NoRunner(disp.calls[disp.n].fn)
    /\ Binds(disp.calls[disp.n].fn, disp.calls[disp.n].args)
    /\ disp' = [disp EXCEPT !.pc = "running"]
    /\ LET c == disp.calls[disp.n]
       IN  CASE c.fn = "move_to_pose" ->
                  StartMovePose(1, c.args.name, Arg(c, "duration"), Arg(c, "fps"))
             [] c.fn = "talking" ->
                  StartOsc(1, "talk", c.args.seconds, Arg(c, "dwell"))
             [] c.fn = "thinking" ->
                  StartOsc(1, "thinking", c.args.seconds, Arg(c, "dwell"))
             [] OTHER ->
                  StartComposite(1, c.fn, c.args.seconds, Arg(c, "settle"),
                                 Arg(c, "dwell"))

\* line 164 returns json.dumps({"ok": bool(...), ...}), or the operation's
\* exception goes on through run()
DispatchResult ==
    /\ ~finished
    /\ disp.pc = "running"
    /\ th[1].pc = "done"
    /\ disp' = IF th[1].exc = "none"
               THEN Answered(disp, [ok |-> th[1].ret = "true", error |-> "none"])
               ELSE Raised(disp)
    /\ UNCHANGED <<persist, envOk, poses, obs, ROBOT, lock, sessions, th, log,
                   acquired, menu, budget, cleanupPc, cleanupCalls, cleanupDone,
                   finished>>

\* the loop is over: lines 173-179
DispatchReturn ==
    /\ ~finished
    /\ disp.pc = "next"
    /\ disp.n > Len(disp.calls)
    /\ disp' = [disp EXCEPT !.pc = "returned"]
    /\ UNCHANGED <<persist, envOk, poses, obs, ROBOT, lock, sessions, th, log,
                   acquired, menu, budget, cleanupPc, cleanupCalls, cleanupDone,
                   finished>>

NextRun ==
    \/ DispatchUnknown
    \/ DispatchBadArgs
    \/ DispatchCall
    \/ DispatchResult
    \/ DispatchReturn
    \/ \E ok \in BOOLEAN : GetRobotFresh(1, ok)
    \/ GetRobotLock(1)
    \/ \E ok \in BOOLEAN : GetRobotLocked(1, ok)
    \/ ValidKeys(1)
    \/ NodReadBase(1)
    \/ ReadStart(1)
    \/ SendInstant(1)
    \/ SendFrame(1)
    \/ SendOsc(1)
    \/ \E ok \in BOOLEAN : Release(1, ok)
    \/ Return(1)

SpecRun == InitRun /\ [][NextRun]_vars

\* ------------------------------------------------------------ properties
\* the commands the arm took from primitive prim of call opid, in order
Taken(opid, prims) ==
    SelectSeq(log, LAMBDA e : e.op = opid /\ e.prim \in prims /\ e.live)

\* every send_action call of call opid in primitives prims, taken or not
Calls(opid, prims) ==
    SelectSeq(log, LAMBDA e : e.op = opid /\ e.prim \in prims)

Oscillations == {"talk", "nod", "thinking"}
Composites == {"presenting_talk", "listening"}
InTry == {"valid_keys", "read_base", "read_start", "send_instant",
          "send_frame", "send_osc", "release"}

\* C1: under the persistent policy, as long as no shutdown has begun, every
\* _get_robot call of every thread returns the same session object, only one
\* session object exists and connect has been called at most once.
C1_SingleSession ==
    (persist /\ cleanupCalls = 0) =>
        /\ Cardinality(acquired) <= 1
        /\ Len(sessions) <= 1
        /\ \A s \in DOMAIN sessions : sessions[s].connects <= 1
        /\ \A t \in Threads : th[t].r # None => th[t].r \in acquired

\* two threads are inside their operations at once, holding the one session
C1_Witness ==
    /\ persist
    /\ cleanupCalls = 0
    /\ \E t1, t2 \in Threads :
          /\ t1 # t2
          /\ th[t1].pc \in InTry /\ th[t2].pc \in InTry
          /\ th[t1].r # None /\ th[t1].r = th[t2].r

\* C2: once the process has finished, every session whose connect succeeded
\* has had disconnect called on it exactly once (stated for the persistent
\* policy, the one the program is configured with).
C2_DisconnectedOnceAtExit ==
    (persist /\ finished) =>
        \A s \in DOMAIN sessions :
            sessions[s].established => sessions[s].disconnects = 1

\* C3: every _cleanup_robot call returns with the reference cleared and the
\* lock free, whatever disconnect did; no session has disconnect called on it
\* by _cleanup_robot more than once; and a call that finds no session stored
\* changes nothing.
C3_ShutdownIdempotent ==
    [][cleanupDone' = cleanupDone + 1 =>
          /\ ROBOT' = None
          /\ lock' = NoOwner
          /\ cleanupPc' = "idle"
          /\ \A s \in DOMAIN sessions' : sessions'[s].byCleanup <= 1
          /\ ROBOT = None =>
                UNCHANGED <<sessions, th, log, obs, acquired>>]_vars

\* _cleanup_robot has returned twice; the first call's disconnect raised
C3_Witness ==
    /\ cleanupDone = 2
    /\ ROBOT = None
    /\ \E s \in DOMAIN sessions :
          /\ sessions[s].byCleanup = 1
          /\ sessions[s].raised = 1
          /\ sessions[s].established

\* the position channels of the arm
Actionable == {k \in DOMAIN obs : k[2] = "pos"}

\* a target restricted to the position channels of the arm
Restricted(target) == [k \in DOMAIN target \cap Actionable |-> target[k]]

\* the primitive of thread t has returned (to its caller, or to the client)
Returned(t, prims) ==
    /\ th[t].prim \in prims
    /\ th[t].pc \in {"return", "done"}
    /\ th[t].exc = "none"

\* C4 as stated: a smooth move that returns success has sent
\* max(1, round(d * fps)) frames.
C4_FramesRounded ==
    \A t \in Threads :
        (Returned(t, {"move"}) /\ th[t].duration > 0 /\ th[t].ret = "true") =>
            Len(Taken(th[t].opid, {"move"})) =
                Max(1, RoundHalfEven(th[t].duration * th[t].fps, TicksPerSecond))

\* C4 amended: a smooth move that returns success has sent
\* max(1, floor(d * fps)) frames, and a smooth move never sends more.
C4_FramesTruncated ==
    \A t \in Threads :
        (th[t].prim = "move" /\ th[t].duration > 0) =>
            LET n == Max(1, (th[t].duration * th[t].fps) \div TicksPerSecond)
                sent == Len(Taken(th[t].opid, {"move"}))
            IN  /\ sent <= n
                /\ (Returned(t, {"move"}) /\ th[t].ret = "true") => sent = n
                /\ (Returned(t, {"move"}) /\ th[t].acq = 1
                      /\ DOMAIN th[t].target0 \cap Actionable # {}) =>
                         th[t].ret = "true"

\* a smooth move of 1.875 s at 2 fps has returned after 3 frames, not 4
C4_Witness ==
    \E t \in Threads :
        /\ Returned(t, {"move"})
        /\ th[t].ret = "true"
        /\ th[t].duration = 15 /\ th[t].fps = 2
        /\ Len(Taken(th[t].opid, {"move"})) = 3
        /\ RoundHalfEven(15 * 2, TicksPerSecond) = 4

\* C5: a move with duration <= 0 whose target names a position channel of
\* the arm returns success after exactly one send_action call, which carries
\* the target restricted to the arm's position channels.
C5_InstantMove ==
    \A t \in Threads :
        (Returned(t, {"move"}) /\ th[t].duration <= 0 /\ th[t].acq = 1
            /\ DOMAIN th[t].target0 \cap Actionable # {}) =>
            LET calls == Calls(th[t].opid, {"move"})
            IN  /\ th[t].ret = "true"
                /\ Len(calls) = 1
                /\ calls[1].live
                /\ calls[1].cmd = Restricted(th[t].target0)

\* an instant move of a pose with a stale channel has returned: one command,
\* smaller than the pose
C5_Witness ==
    \E t \in Threads :
        /\ Returned(t, {"move"})
        /\ th[t].duration <= 0
        /\ th[t].ret = "true"
        /\ Len(Calls(th[t].opid, {"move"})) = 1
        /\ DOMAIN th[t].target0 # DOMAIN Restricted(th[t].target0)

\* C6: a move whose target shares no key with the arm's position channels
\* makes no send_action call at any point and returns failure.
C6_NoValidKeys ==
    \A t \in Threads :
        (th[t].prim = "move" /\ DOMAIN th[t].target0 \cap Actionable = {}) =>
            /\ Calls(th[t].opid, {"move"}) = <<>>
            /\ th[t].pc \notin {"send_instant", "read_start", "send_frame"}
            /\ (Returned(t, {"move"}) /\ th[t].acq = 1) => th[t].ret = "false"

\* a smooth move of a pose with only stale channels has returned failure
C6_Witness ==
    \E t \in Threads :
        /\ Returned(t, {"move"})
        /\ th[t].acq = 1
        /\ th[t].duration > 0
        /\ th[t].target0 # EmptyCfg
        /\ DOMAIN th[t].target0 \cap Actionable = {}
        /\ th[t].ret = "false"

\* the two poses of an oscillation, as the arm must receive them
ExpectedPoses(prim, first, second) ==
    CASE prim = "talk" ->
            /\ first = [k \in {GRIPPER} |-> <<127, 10>>]
            /\ second = [k \in {GRIPPER} |-> <<0, 1>>]
      [] prim = "thinking" ->
            /\ first = [k \in {WRIST_ROLL} |-> <<-152, 5>>]
            /\ second = [k \in {WRIST_ROLL} |-> <<129, 5>>]
      [] OTHER ->
            /\ DOMAIN first = {WRIST_FLEX} /\ DOMAIN second = {WRIST_FLEX}
            /\ second[WRIST_FLEX] = RAdd(first[WRIST_FLEX], Rat(30))

\* C7: an oscillation with seconds > 0 and dwell > 0 on an arm that has its
\* channel returns success after 2 * max(1, floor(seconds / (2 * dwell)))
\* commands, which alternate first pose, second pose from the first on.
C7_OscillationCycles ==
    \A t \in Threads :
        (Returned(t, Oscillations) /\ th[t].acq = 1
            /\ th[t].seconds > 0 /\ th[t].dwell > 0
            /\ ChannelOf(th[t].prim) \in Actionable) =>
            LET n == Max(1, th[t].seconds \div (2 * th[t].dwell))
                sent == Taken(th[t].opid, {th[t].prim})
            IN  /\ th[t].ret = "true"
                /\ Len(sent) = 2 * n
                /\ ExpectedPoses(th[t].prim, sent[1].cmd, sent[2].cmd)
                /\ \A j \in 1..Len(sent) :
                      sent[j].cmd = IF j % 2 = 1 THEN sent[1].cmd ELSE sent[2].cmd

\* talk(5, 0.25) has returned: ten cycles, twenty commands
C7_Witness ==
    \E t \in Threads :
        /\ Returned(t, {"talk"})
        /\ th[t].seconds = 40 /\ th[t].dwell = 2
        /\ th[t].ret = "true"
        /\ Len(Taken(th[t].opid, {"talk"})) = 20

\* the pose a call looks up is missing from the store, or is empty
PoseMissing(name) == name \notin DOMAIN poses \/ DOMAIN poses[name] = {}

AllPrims == {"move"} \cup Oscillations

\* C8: a move_pose, presenting_talk or listening whose pose lookup misses or
\* yields an empty pose is over at once with failure: no primitive entered,
\* no session acquired, no send_action call.
C8_MissingPose ==
    \A t \in Threads :
        (th[t].op \in {"move_pose"} \cup Composites /\ PoseMissing(th[t].name)) =>
            /\ th[t].pc = "done"
            /\ th[t].ret = "false"
            /\ th[t].exc = "none"
            /\ th[t].prim = "none"
            /\ th[t].r = None /\ th[t].opAcq = 0
            /\ Calls(th[t].opid, AllPrims) = <<>>

\* listening has failed on a store whose "presenting" pose is empty
C8_Witness ==
    \E t \in Threads :
        /\ th[t].op = "listening"
        /\ th[t].pc = "done"
        /\ "presenting" \in DOMAIN poses
        /\ PoseMissing("presenting")

\* C9: in a composite gesture the oscillation is entered only after the move
\* returned success; a failed move ends the gesture with failure and without
\* any oscillation command; and among the send_action calls of a gesture no
\* move frame comes next after an oscillation command.
C9_ShortCircuit ==
    /\ \A t \in Threads :
          th[t].op \in Composites =>
              /\ th[t].prim \in Oscillations => th[t].moveRet = "true"
              /\ Calls(th[t].opid, Oscillations) # <<>> => th[t].moveRet = "true"
              /\ th[t].moveRet = "false" =>
                    /\ th[t].pc = "done"
                    /\ th[t].ret = "false"
              /\ (th[t].prim = "move" /\ th[t].pc \in {"return", "done"}
                    /\ th[t].ret = "false") =>
                       Calls(th[t].opid, Oscillations) = <<>>
    /\ \A t \in Threads :
          LET calls == Calls(th[t].opid, AllPrims)
          IN  \A i \in 1..(Len(calls) - 1) :
                 calls[i].prim \in Oscillations => calls[i + 1].prim # "move"

\* a composite has failed because its move to "presenting" returned failure
C9_Witness ==
    \E t \in Threads :
        /\ th[t].op \in Composites
        /\ ~PoseMissing("presenting")
        /\ th[t].pc = "done"
        /\ th[t].moveRet = "false"
        /\ th[t].ret = "false"

\* what holds of the acquire and release counts of every primitive
ScopedRelease ==
    \A t \in Threads :
        /\ th[t].acq <= 1
        /\ th[t].pc \in InTry => (th[t].acq = 1 /\ th[t].rel = 0 /\ th[t].r # None)
        /\ (th[t].pc \in {"return", "done"}) =>
              /\ th[t].rel = th[t].acq
              /\ th[t].acq = 1 => th[t].relSid = th[t].r
        /\ (~persist /\ th[t].rel = 1) =>
              /\ sessions[th[t].r].disconnects = 1
              /\ sessions[th[t].r].raised = 0 => ~sessions[th[t].r].connected

\* what a release changes: never the result, and nothing under persistence
ReleaseStep ==
    \A t \in Threads :
        th'[t].rel = th[t].rel + 1 =>
            /\ th'[t].ret = th[t].ret
            /\ th'[t].exc = th[t].exc
            /\ persist => sessions' = sessions

\* C10: every successful acquire of a primitive is followed by exactly one
\* release of that session before the primitive returns, on every exit path;
\* without persistence the release calls disconnect once and a disconnect
\* error leaves the result as it was; with persistence release changes no
\* session.
C10_AcquireRelease == []ScopedRelease /\ [][ReleaseStep]_vars

\* without persistence a move has failed early and the disconnect of its
\* release raised
C10_Witness ==
    \E t \in Threads :
        /\ ~persist
        /\ th[t].pc = "return"
        /\ th[t].acq = 1 /\ th[t].rel = 1
        /\ th[t].ret = "false"
        /\ sessions[th[t].r].raised = 1

AcquireErrors == {"config", "connect"}

\* C11 as stated: every error of an acquire is a connection error, and the
\* call it ends has made no send_action call.
C11_ConnectionError ==
    \A t \in Threads :
        th[t].exc \in AcquireErrors =>
            /\ IsConnectionError(ErrorClass(th[t].exc))
            /\ Calls(th[t].opid, AllPrims) = <<>>

\* what holds of a primitive whose acquire raised, and of a missing setting
AcquireFailed ==
    /\ ~envOk =>
          /\ sessions = <<>>
          /\ \A t \in Threads :
                (th[t].pc \in {"return", "done"} /\ th[t].prim # "none"
                    /\ ~(th[t].prim \in Oscillations
                           /\ Degenerate(th[t].seconds, th[t].dwell))) =>
                    /\ th[t].exc = "config"
                    /\ ErrorClass(th[t].exc) = "RuntimeError"
    /\ \A t \in Threads :
          th[t].exc \in AcquireErrors =>
              /\ th[t].pc \in {"return", "done"}
              /\ th[t].ret = "none"
              /\ th[t].acq = 0 /\ th[t].rel = 0 /\ th[t].r = None
              /\ Calls(th[t].opid, {th[t].prim}) = <<>>
              /\ th[t].exc = "connect" =>
                    /\ envOk
                    /\ sessions # <<>>
                    /\ sessions[Len(sessions)].connects = 1
                    /\ ~sessions[Len(sessions)].established
    /\ \A s \in DOMAIN sessions : sessions[s].connects = 1

\* once the acquire of a call has raised, the call constructs no session and
\* sends nothing
AcquireFailedStep ==
    \A t \in Threads :
        (th[t].exc \in AcquireErrors /\ th'[t].opid = th[t].opid) =>
            /\ th'[t].exc = th[t].exc
            /\ Len(sessions') = Len(sessions)
            /\ log' = log

\* C11 amended: an acquire raises whenever a setting is missing (a
\* RuntimeError, no session constructed) or its connect call fails (the
\* error of connect, one connect call); the error ends the call with no
\* result, no release, no further connect and no command of the primitive
\* whose acquire it was.
C11_AcquireError == []AcquireFailed /\ [][AcquireFailedStep]_vars

\* presenting_talk: the move has sent its command, then the connect of
\* talk's acquire failed and the error ended the gesture
C11_Witness ==
    \E t \in Threads :
        /\ th[t].op = "presenting_talk"
        /\ th[t].prim = "talk"
        /\ th[t].pc = "done"
        /\ th[t].exc = "connect"
        /\ Calls(th[t].opid, {"move"}) # <<>>
        /\ Calls(th[t].opid, {"talk"}) = <<>>

\* an oscillation called with seconds <= 0 or dwell <= 0 is over with
\* success, having acquired and sent nothing
NoOpDone ==
    \A t \in Threads :
        (th[t].prim \in Oscillations
            /\ (th[t].seconds <= 0 \/ th[t].dwell <= 0)) =>
            /\ th[t].pc \in {"return", "done"}
            /\ th[t].ret = "true"
            /\ th[t].exc = "none"
            /\ th[t].acq = 0 /\ th[t].rel = 0 /\ th[t].r = None
            /\ Calls(th[t].opid, {th[t].prim}) = <<>>

\* entering and leaving such an oscillation changes nothing but the caller
NoOpStep ==
    \A t \in Threads :
        (th'[t].prim \in Oscillations
            /\ (th'[t].seconds <= 0 \/ th'[t].dwell <= 0)
            /\ th'[t] # th[t]) =>
            UNCHANGED <<ROBOT, lock, sessions, obs, log, acquired>>

\* C12: talk, nod or thinking called with seconds <= 0 or dwell <= 0 returns
\* success at once: no acquire, no connect, no observation read, no command,
\* and the session, the stored reference and the lock stay as they were.
C12_DegenerateNoOp == []NoOpDone /\ [][NoOpStep]_vars

\* nod(0.375, 0) has returned success
C12_Witness ==
    \E t \in Threads :
        /\ th[t].op = "nod"
        /\ th[t].seconds > 0 /\ th[t].dwell = 0
        /\ th[t].pc = "done"
        /\ th[t].ret = "true"
        /\ sessions = <<>>

\* C13: an oscillation (seconds > 0, dwell > 0) on an arm whose position
\* channels lack the one it drives makes no send_action call at any point
\* and never reaches its base read or its loop; when the session it
\* acquired is connected and no shutdown has begun it returns False, raising
\* nothing, after one release.
C13_ChannelAbsent ==
    \A t \in Threads :
        (th[t].prim \in Oscillations
            /\ th[t].seconds > 0 /\ th[t].dwell > 0
            /\ ChannelOf(th[t].prim) \notin Actionable) =>
            /\ Calls(th[t].opid, {th[t].prim}) = <<>>
            /\ th[t].pc \notin {"read_base", "send_osc"}
            /\ Returned(t, Oscillations) => th[t].ret = "false"
            /\ (th[t].pc \in {"return", "done"} /\ th[t].acq = 1
                  /\ sessions[th[t].r].established /\ cleanupCalls = 0) =>
                    /\ th[t].exc = "none"
                    /\ th[t].ret = "false"
                    /\ th[t].rel = 1

\* nod has returned False on an arm that reports no wrist_flex.pos
C13_Witness ==
    \E t \in Threads :
        /\ th[t].op = "nod"
        /\ WRIST_FLEX \notin DOMAIN obs
        /\ th[t].pc = "done"
        /\ th[t].acq = 1 /\ th[t].rel = 1
        /\ th[t].exc = "none"
        /\ th[t].ret = "false"

\* v lies between a and b
Between(a, v, b) == (RLeq(a, v) /\ RLeq(v, b)) \/ (RLeq(b, v) /\ RLeq(v, a))

ToolCallFails(c) == c.fn \notin FUNCTIONS \/ ~Binds(c.fn, c.args)

\* C15: every tool call that names no tool, or gives a tool arguments it
\* does not take, gets the result {ok: false, error: ...}; run() goes on to
\* the next call; and the operations are entered only for the other calls.
C15_DispatchFailures ==
    /\ \A i \in 1..Len(disp.calls) :
          (ToolCallFails(disp.calls[i]) /\ disp.n >= i) =>
              /\ disp.pc # "raised"
              /\ disp.n > i =>
                    /\ ~disp.out[i].ok
                    /\ disp.out[i].error # "none"
    /\ disp.pc # "none" =>
          MaxCalls - budget[1] =
              Cardinality({i \in 1..Len(disp.calls) :
                              /\ ~ToolCallFails(disp.calls[i])
                              /\ i < disp.n \/ (i = disp.n /\ disp.pc # "next")})

\* C16: in the stream of commands the arm received, the commands of one
\* call keep the order of its loop whatever other calls send in between:
\* the j-th command of a smooth move is the frame of step j, one per step;
\* the j-th command of an oscillation is its first pose for odd j and its
\* second for even j; and a loop has sent as many commands as it has made
\* iterations.
C16_SendOrder ==
    \A t \in Threads :
        LET m == Taken(th[t].opid, {"move"})
            o == Taken(th[t].opid, Oscillations)
        IN  /\ th[t].steps = 0 => Len(m) <= 1
            /\ th[t].steps > 0 =>
                  /\ Len(m) <= th[t].steps
                  /\ th[t].prim = "move" => Len(m) = th[t].i
                  /\ \A j \in 1..Len(m) :
                        m[j].cmd = Frame(th[t].start, th[t].target, th[t].joint_keys,
                                         Ease(Norm(j, th[t].steps)))
            /\ th[t].cycles = 0 => o = <<>>
            /\ th[t].cycles > 0 =>
                  /\ Len(o) <= 2 * th[t].cycles
                  /\ Len(o) = th[t].i
                  /\ \A j \in 1..Len(o) :
                        o[j].cmd = IF j % 2 = 1 THEN th[t].poseA ELSE th[t].poseB

\* a smooth move has sent its three frames, all different, and the arm took
\* a command of the other thread between two of them
C16_Witness ==
    \E t \in Threads :
        /\ th[t].prim = "move" /\ th[t].steps = 3
        /\ LET m == Taken(th[t].opid, {"move"})
           IN  /\ Len(m) = 3
               /\ m[1].cmd # m[2].cmd /\ m[2].cmd # m[3].cmd
        /\ \E a, b, c \in DOMAIN log :
              /\ a < b /\ b < c
              /\ log[a].t = t /\ log[c].t = t /\ log[b].t # t
              /\ log[a].prim = "move" /\ log[c].prim = "move"

\* the positions at which a primitive reads from or writes to its session
Streaming == {"valid_keys", "read_base", "read_start", "send_instant",
              "send_frame", "send_osc"}

\* C17: _LOCK is owned only by a thread inside the `with _LOCK:` block of
\* _get_robot or by the main thread inside that of _cleanup_robot, never by
\* a thread that reads or sends; so a thread at its acquire finds the lock
\* free unless another thread is inside one of these two blocks, however
\* many are streaming.
C17_LockScope ==
    /\ lock \in Threads => th[lock].pc = "locked"
    /\ lock = Main => cleanupPc = "locked"
    /\ \A t \in Threads : th[t].pc = "locked" => lock = t
    /\ \A t \in Threads :
          (th[t].pc = "get_robot"
              /\ cleanupPc # "locked"
              /\ \A u \in Threads : th[u].pc # "locked") => lock = NoOwner

\* persistent policy: two threads stream on the one session at once, and
\* the arm took a command of one between two consecutive commands of the
\* other
C17_Witness ==
    /\ persist
    /\ \E t, u \in Threads :
          /\ t # u
          /\ th[t].pc \in Streaming /\ th[u].pc \in Streaming
          /\ th[t].r # None /\ th[t].r = th[u].r
          /\ \E b \in 2..(Len(log) - 1) :
                /\ log[b - 1].op = th[t].opid
                /\ log[b + 1].op = th[t].opid
                /\ log[b - 1].prim = log[b + 1].prim
                /\ log[b].op = th[u].opid
                /\ log[b - 1].live /\ log[b].live /\ log[b + 1].live

\* the commands of a nod are its stored base - delta and base + delta
NodPoses ==
    \A t \in Threads :
        (th[t].prim = "nod" /\ th[t].cycles > 0) =>
            /\ DOMAIN th[t].poseA = {WRIST_FLEX}
            /\ DOMAIN th[t].poseB = {WRIST_FLEX}
            /\ th[t].poseB[WRIST_FLEX] =
                  RAdd(th[t].poseA[WRIST_FLEX], Rat(2 * NodDelta))
            /\ LET sent == Calls(th[t].opid, {"nod"})
               IN  \A j \in 1..Len(sent) :
                      sent[j].cmd = IF j % 2 = 1 THEN th[t].poseA ELSE th[t].poseB

\* the base is the reading at the one read, and is kept from then on
NodStep ==
    \A t \in Threads :
        /\ (th[t].pc = "read_base" /\ th'[t].pc = "send_osc") =>
              /\ th'[t].poseA[WRIST_FLEX] = RSub(obs[WRIST_FLEX], Rat(NodDelta))
              /\ th'[t].poseB[WRIST_FLEX] = RAdd(obs[WRIST_FLEX], Rat(NodDelta))
        /\ (th[t].prim = "nod" /\ th[t].pc = "send_osc") =>
              /\ th'[t].pc \in {"send_osc", "release"}
              /\ th'[t].poseA = th[t].poseA
              /\ th'[t].poseB = th[t].poseB

\* C18: nod reads wrist_flex.pos once, before its first command; its
\* commands are that reading - delta and + delta in turn, for every cycle,
\* and neither a later change of the reading nor anything else changes them
\* during the cycles.
C18_NodBaseOnce == []NodPoses /\ [][NodStep]_vars

\* a nod has sent down and up around the base it read, although the arm took
\* a wrist_flex command of the other thread between the two
C18_Witness ==
    \E t \in Threads :
        /\ th[t].prim = "nod"
        /\ Len(Taken(th[t].opid, {"nod"})) = 2
        /\ \E b \in 2..(Len(log) - 1) :
              /\ log[b - 1].op = th[t].opid /\ log[b - 1].prim = "nod"
              /\ log[b + 1].op = th[t].opid /\ log[b + 1].prim = "nod"
              /\ log[b].t # t /\ log[b].live
              /\ WRIST_FLEX \in DOMAIN log[b].cmd
              /\ log[b].cmd[WRIST_FLEX] # log[b - 1].cmd[WRIST_FLEX]
              /\ log[b + 1].cmd[WRIST_FLEX] =
                    RAdd(log[b - 1].cmd[WRIST_FLEX], Rat(2 * NodDelta))

\* C19: under the persistent policy every session _get_robot has returned,
\* and the session _ROBOT refers to whenever no thread is inside
\* _get_robot's locked block, is one whose connect call succeeded.
C19_ConnectedOrNone ==
    persist =>
        /\ \A s \in acquired : sessions[s].established
        /\ (ROBOT # None /\ \A t \in Threads : th[t].pc # "locked") =>
              sessions[ROBOT].established

\* C20: every send_action call is made on a session that is connected, and
\* a read or a send fails with a device error only on a session whose
\* connect never succeeded: no call is made on a session after its
\* disconnect.
C20_NoUseAfterDisconnect ==
    /\ \A i \in DOMAIN log :
          ~log[i].live => ~sessions[log[i].s].established
    /\ \A t \in Threads :
          th[t].exc = "device" => ~sessions[th[t].r].established

====
